---- MODULE Spec2Model ----
(***************************************************************************)
(* EasyGA: the Population container (structure/population.py), the         *)
(* crossover pairing policies and recombination algorithms                 *)
(* (crossover/crossover_methods.py) and the validated configuration fields *)
(* (attributes.py).                                                        *)
(*                                                                         *)
(* A chromosome is the sequence of its gene values.  A crossover weight is *)
(* kept in tenths: the integer w stands for the Python float w/10, so      *)
(* 0 < weight < 1 reads 0 < w < 10 and weight == 0.5 reads w = 5.          *)
(***************************************************************************)
EXTENDS Integers, Sequences, FiniteSets, TLC

VARIABLES
    chromosome_list,            \* Population.chromosome_list  (members)
    mating_pool,                \* Population.mating_pool
    next_population,            \* Population.next_population  (staging)
    op,                         \* name of the last operation called
    arg,                        \* its arguments
    ret,                        \* its outcome: a return value or an exception
    pre,                        \* the three slots as they were when it was called
    calls,                      \* the recombination calls it made, in order
    crossover_individual_impl,  \* Attributes.crossover_individual_impl
    constructed,                \* whether Attributes.__init__ has returned
    chromosome_length,          \* Attributes._chromosome_length
    population_size,            \* Attributes._population_size
    heap,                       \* the objects gene values are made of
    genes                       \* the Gene constructions made so far

vars == <<chromosome_list, mating_pool, next_population, op, arg, ret, pre,
          calls, crossover_individual_impl, constructed, chromosome_length,
          population_size, heap, genes>>

popVars == <<chromosome_list, mating_pool, next_population>>
gaVars == <<calls, crossover_individual_impl, constructed, chromosome_length,
            population_size, heap, genes>>

----------------------------------------------------------------------------
(* Bounds of the model *)

MaxLen == 2
MaxBatch == 2
MaxIndexLen == 4
MaxGuess == 5
MaxGene == 1
MaxChromLen == 2
MaxPool == 3
MaxAttr == 2
MaxGenes == 2
MaxItems == 2

----------------------------------------------------------------------------
(* Python list semantics *)

Genes == 0..MaxGene

\* the chromosomes the population operations are exercised with
PopChromosomes == {<<0>>, <<1>>}

SeqsUpTo(S, n) == UNION {[1..k -> S] : k \in 0..n}

\* a list that rejects negative indices
PyValidIndex_NonNegative(list, index) == 0 <= index /\ index < Len(list)

\* list[index]: indices -len..len-1 are valid, negative ones count from the end
PyValidIndex(list, index) == -Len(list) <= index /\ index < Len(list)

PyPos(list, index) == IF index < 0 THEN index + Len(list) + 1 ELSE index + 1

PyGetItem(list, index) == list[PyPos(list, index)]

\* list.pop(index) for a valid index: what is left of the list
PyPopRest(list, index) ==
    [k \in 1..(Len(list) - 1) |->
        IF k < PyPos(list, index) THEN list[k] ELSE list[k + 1]]

\* list.insert(index, x): the index is clamped into 0..len
PyInsertPos(list, index) ==
    IF index < 0
    THEN (IF index + Len(list) < 0 THEN 0 ELSE index + Len(list))
    ELSE (IF index > Len(list) THEN Len(list) ELSE index)

PyInsert(list, index, x) ==
    SubSeq(list, 1, PyInsertPos(list, index)) \o <<x>>
        \o SubSeq(list, PyInsertPos(list, index) + 1, Len(list))

NoChromosome == <<>>

Returned(c) == [kind |-> "ok", val |-> c, idx |-> -1]
ReturnedIndex(i) == [kind |-> "ok", val |-> NoChromosome, idx |-> i]
ReturnedNone == [kind |-> "ok", val |-> NoChromosome, idx |-> -1]
Raised(e) == [kind |-> e, val |-> NoChromosome, idx |-> -1]

Slots == [members |-> chromosome_list, pool |-> mating_pool,
          staging |-> next_population,
          chromosome_length |-> chromosome_length,
          population_size |-> population_size]

NoValue == [kind |-> "NoneType", num |-> 0]
PyInt(n) == [kind |-> "int", num |-> n]

NoArg == [index |-> 0, items |-> <<>>, chromosome |-> NoChromosome,
          guess |-> 0, weight |-> 0, parent_1 |-> NoChromosome,
          parent_2 |-> NoChromosome, value |-> NoValue, value_2 |-> NoValue]

\* the indices the index-taking operations are called with
Indices == (-(MaxLen + 1))..MaxLen

----------------------------------------------------------------------------
(* Population *)

\* every operation records its name, arguments and the slots it found
Called(name, a) ==
    /\ op' = name
    /\ arg' = a
    /\ pre' = Slots

\* an update that merges the staged chromosomes into the members
update_merge ==
    /\ Called("update", NoArg)
    /\ chromosome_list' = chromosome_list \o next_population
    /\ mating_pool' = <<>>
    /\ next_population' = <<>>
    /\ ret' = ReturnedNone
    /\ UNCHANGED gaVars

\* Population.update
update ==
    /\ Called("update", NoArg)
    /\ chromosome_list' = next_population
    /\ mating_pool' = <<>>
    /\ next_population' = <<>>
    /\ ret' = ReturnedNone
    /\ UNCHANGED gaVars

\* Population.reset_mating_pool
reset_mating_pool ==
    /\ Called("reset_mating_pool", NoArg)
    /\ mating_pool' = <<>>
    /\ ret' = ReturnedNone
    /\ UNCHANGED <<chromosome_list, next_population, gaVars>>

\* Population.reset_next_population
reset_next_population ==
    /\ Called("reset_next_population", NoArg)
    /\ next_population' = <<>>
    /\ ret' = ReturnedNone
    /\ UNCHANGED <<chromosome_list, mating_pool, gaVars>>

\* Population.remove_chromosome
remove_chromosome(index) ==
    /\ Called("remove_chromosome", [NoArg EXCEPT !.index = index])
    /\ IF PyValidIndex(chromosome_list, index)
       THEN /\ ret' = Returned(PyGetItem(chromosome_list, index))
            /\ chromosome_list' = PyPopRest(chromosome_list, index)
       ELSE /\ ret' = Raised("IndexError")
            /\ UNCHANGED chromosome_list
    /\ UNCHANGED <<mating_pool, next_population, gaVars>>

\* Population.remove_parent
remove_parent(index) ==
    /\ Called("remove_parent", [NoArg EXCEPT !.index = index])
    /\ IF PyValidIndex(mating_pool, index)
       THEN /\ ret' = Returned(PyGetItem(mating_pool, index))
            /\ mating_pool' = PyPopRest(mating_pool, index)
       ELSE /\ ret' = Raised("IndexError")
            /\ UNCHANGED mating_pool
    /\ UNCHANGED <<chromosome_list, next_population, gaVars>>

\* Population.remove_child
remove_child(index) ==
    /\ Called("remove_child", [NoArg EXCEPT !.index = index])
    /\ IF PyValidIndex(next_population, index)
       THEN /\ ret' = Returned(PyGetItem(next_population, index))
            /\ next_population' = PyPopRest(next_population, index)
       ELSE /\ ret' = Raised("IndexError")
            /\ UNCHANGED next_population
    /\ UNCHANGED <<chromosome_list, mating_pool, gaVars>>

\* an append_children that appends to the back
append_children_back(items) ==
    /\ Len(items) + Len(next_population) <= MaxLen
    /\ Called("append_children", [NoArg EXCEPT !.items = items])
    /\ next_population' = next_population \o items
    /\ ret' = ReturnedNone
    /\ UNCHANGED <<chromosome_list, mating_pool, gaVars>>

\* Population.append_children
append_children(items) ==
    /\ Len(items) + Len(next_population) <= MaxLen
    /\ Called("append_children", [NoArg EXCEPT !.items = items])
    /\ next_population' = items \o next_population
    /\ ret' = ReturnedNone
    /\ UNCHANGED <<chromosome_list, mating_pool, gaVars>>

\* Population.add_chromosome with an index
add_chromosome(chromosome, index) ==
    /\ Len(chromosome_list) < MaxLen
    /\ Called("add_chromosome",
              [NoArg EXCEPT !.chromosome = chromosome, !.index = index])
    /\ chromosome_list' = PyInsert(chromosome_list, index, chromosome)
    /\ ret' = ReturnedNone
    /\ UNCHANGED <<mating_pool, next_population, gaVars>>

\* Population.add_chromosome with index = None: index = len(self)
add_chromosome_end(chromosome) ==
    /\ Len(chromosome_list) < MaxLen
    /\ Called("add_chromosome_end", [NoArg EXCEPT !.chromosome = chromosome])
    /\ chromosome_list' =
           PyInsert(chromosome_list, Len(chromosome_list), chromosome)
    /\ ret' = ReturnedNone
    /\ UNCHANGED <<mating_pool, next_population, gaVars>>

\* Population.add_parent
add_parent(chromosome) ==
    /\ Len(mating_pool) < MaxLen
    /\ Called("add_parent", [NoArg EXCEPT !.chromosome = chromosome])
    /\ mating_pool' = Append(mating_pool, chromosome)
    /\ ret' = ReturnedNone
    /\ UNCHANGED <<chromosome_list, next_population, gaVars>>

\* Population.add_child
add_child(chromosome) ==
    /\ Len(next_population) < MaxLen
    /\ Called("add_child", [NoArg EXCEPT !.chromosome = chromosome])
    /\ next_population' = Append(next_population, chromosome)
    /\ ret' = ReturnedNone
    /\ UNCHANGED <<chromosome_list, mating_pool, gaVars>>

\* a set_parent that moves the chromosome out of the population
set_parent_move(index) ==
    /\ Len(mating_pool) < MaxLen
    /\ Called("set_parent", [NoArg EXCEPT !.index = index])
    /\ IF PyValidIndex(chromosome_list, index)
       THEN /\ mating_pool' =
                   Append(mating_pool, PyGetItem(chromosome_list, index))
            /\ chromosome_list' = PyPopRest(chromosome_list, index)
            /\ ret' = ReturnedNone
       ELSE /\ ret' = Raised("IndexError")
            /\ UNCHANGED <<mating_pool, chromosome_list>>
    /\ UNCHANGED <<next_population, gaVars>>

\* Population.set_parent: add_parent(self[index])
set_parent(index) ==
    /\ Len(mating_pool) < MaxLen
    /\ Called("set_parent", [NoArg EXCEPT !.index = index])
    /\ IF PyValidIndex(chromosome_list, index)
       THEN /\ mating_pool' =
                   Append(mating_pool, PyGetItem(chromosome_list, index))
            /\ ret' = ReturnedNone
       ELSE /\ ret' = Raised("IndexError")
            /\ UNCHANGED mating_pool
    /\ UNCHANGED <<chromosome_list, next_population, gaVars>>

\* Attributes.__init__: the defaults of chromosome_length and population_size
DefaultChromosomeLength == 10
DefaultPopulationSize == 10

NoSlots == [members |-> <<>>, pool |-> <<>>, staging |-> <<>>,
            chromosome_length |-> PyInt(DefaultChromosomeLength),
            population_size |-> PyInt(DefaultPopulationSize)]

\* Population.__init__ and the configuration it is built under
Init ==
    /\ chromosome_list \in SeqsUpTo(PopChromosomes, MaxLen)
    /\ mating_pool = <<>>
    /\ next_population = <<>>
    /\ op = "init"
    /\ arg = NoArg
    /\ ret = ReturnedNone
    /\ pre = NoSlots
    /\ calls = <<>>
    /\ crossover_individual_impl = "single_point"
    /\ constructed = TRUE
    /\ chromosome_length = PyInt(DefaultChromosomeLength)
    /\ population_size = PyInt(DefaultPopulationSize)
    /\ heap = <<>>
    /\ genes = <<>>

Next ==
    \/ update
    \/ reset_mating_pool
    \/ reset_next_population
    \/ \E index \in Indices : remove_chromosome(index)
    \/ \E index \in Indices : remove_parent(index)
    \/ \E index \in Indices : remove_child(index)
    \/ \E items \in SeqsUpTo(PopChromosomes, MaxBatch) : append_children(items)
    \/ \E c \in PopChromosomes, index \in Indices : add_chromosome(c, index)
    \/ \E c \in PopChromosomes : add_chromosome_end(c)
    \/ \E c \in PopChromosomes : add_parent(c)
    \/ \E c \in PopChromosomes : add_child(c)
    \/ \E index \in Indices : set_parent(index)

Spec == Init /\ [][Next]_vars

----------------------------------------------------------------------------
(* Population.index_of *)

\* Chromosome.__eq__: two chromosomes are equal when their genes are
ChromosomeEq(a, b) == a = b

\* guess %= len(self); if guess >= len(self)//2: guess -= len(self)
SymmetricMod(guess, n) ==
    IF (guess % n) >= (n \div 2) THEN (guess % n) - n ELSE guess % n

\* for i in range(len(self)//2): ... else: raise IndexError
RECURSIVE SearchOutwards(_, _, _, _)
SearchOutwards(list, chromosome, guess, i) ==
    IF i >= Len(list) \div 2
    THEN Raised("IndexError")
    ELSE IF ~PyValidIndex(list, guess - i)
    THEN Raised("IndexError")
    ELSE IF ChromosomeEq(chromosome, PyGetItem(list, guess - i))
    THEN ReturnedIndex((guess - i) % Len(list))
    ELSE IF ~PyValidIndex(list, guess + i)
    THEN Raised("IndexError")
    ELSE IF ChromosomeEq(chromosome, PyGetItem(list, guess + i))
    THEN ReturnedIndex((guess + i) % Len(list))
    ELSE SearchOutwards(list, chromosome, guess, i + 1)

\* Population.index_of(chromosome): the name `gene` is not bound in the
\* method nor in the module, so evaluating the argument of list.index raises
index_of(chromosome) ==
    /\ Called("index_of", [NoArg EXCEPT !.chromosome = chromosome])
    /\ ret' = Raised("NameError")
    /\ UNCHANGED <<popVars, gaVars>>

\* Population.index_of(chromosome, guess)
index_of_guess(chromosome, guess) ==
    /\ Called("index_of_guess",
              [NoArg EXCEPT !.chromosome = chromosome, !.guess = guess])
    /\ ret' = IF Len(chromosome_list) = 0
              THEN Raised("ZeroDivisionError")
              ELSE SearchOutwards(chromosome_list, chromosome,
                       SymmetricMod(guess, Len(chromosome_list)), 0)
    /\ UNCHANGED <<popVars, gaVars>>

Guesses == (-MaxGuess)..MaxGuess

Init_IndexOf ==
    /\ chromosome_list \in SeqsUpTo(PopChromosomes, MaxIndexLen)
    /\ mating_pool = <<>>
    /\ next_population = <<>>
    /\ op = "init"
    /\ arg = NoArg
    /\ ret = ReturnedNone
    /\ pre = NoSlots
    /\ calls = <<>>
    /\ crossover_individual_impl = "single_point"
    /\ constructed = TRUE
    /\ chromosome_length = PyInt(DefaultChromosomeLength)
    /\ population_size = PyInt(DefaultPopulationSize)
    /\ heap = <<>>
    /\ genes = <<>>

Next_IndexOf ==
    \/ \E c \in PopChromosomes : index_of(c)
    \/ \E c \in PopChromosomes, guess \in Guesses : index_of_guess(c, guess)

SpecIndexOf == Init_IndexOf /\ [][Next_IndexOf]_vars

----------------------------------------------------------------------------
(* Claims about the Population *)

\* a sequence without its k-th element (1-based)
WithoutAt(s, k) == SubSeq(s, 1, k - 1) \o SubSeq(s, k + 1, Len(s))

Occurs(c, s) == \E k \in 1..Len(s) : s[k] = c

FirstPos(c, s) == CHOOSE k \in 1..Len(s) :
    s[k] = c /\ \A j \in 1..(k - 1) : s[j] # c

\* the exceptions that report a chromosome that is not in the population
NotFound == {"IndexError", "ValueError"}

\* C1: after update the members are exactly the chromosomes that were staged
\* when it was called, in the same order, with nothing of the old members
\* kept, and the mating pool and the staging buffer are empty.
C1_UpdateReplaces ==
    op = "update" =>
        /\ chromosome_list = pre.staging
        /\ mating_pool = <<>>
        /\ next_population = <<>>

C1_Witness ==
    /\ op = "update"
    /\ pre.members # <<>>
    /\ pre.pool # <<>>
    /\ Len(pre.staging) = 2
    /\ pre.staging[1] # pre.staging[2]
    /\ pre.members # pre.staging

\* C2: index_of without a guess returns the position of the first member
\* equal to the chromosome, fails with the not-found error when no member is
\* equal to it, and leaves the population unchanged.
C2_IndexOfNoGuess ==
    op = "index_of" =>
        /\ IF Occurs(arg.chromosome, pre.members)
           THEN ret = ReturnedIndex(FirstPos(arg.chromosome, pre.members) - 1)
           ELSE ret.kind \in NotFound
        /\ Slots = pre

\* C3: index_of with a guess on a non-empty population finds every chromosome
\* that is a member: it returns an index in 0..len-1 whose member equals the
\* chromosome, and fails with the not-found error only when no member does.
C3_IndexOfGuessFinds ==
    (op = "index_of_guess" /\ Len(pre.members) >= 1) =>
        IF Occurs(arg.chromosome, pre.members)
        THEN /\ ret.kind = "ok"
             /\ 0 <= ret.idx /\ ret.idx < Len(pre.members)
             /\ pre.members[ret.idx + 1] = arg.chromosome
        ELSE ret.kind \in NotFound

RemovedFrom(s, now) ==
    LET i == arg.index IN
    IF 0 <= i /\ i < Len(s)
    THEN /\ ret = Returned(s[i + 1])
         /\ now = WithoutAt(s, i + 1)
    ELSE /\ ret.kind = "IndexError"
         /\ now = s

RemovedFromPy(s, now) ==
    LET i == arg.index IN
    IF 0 <= i /\ i < Len(s)
    THEN /\ ret = Returned(s[i + 1])
         /\ now = WithoutAt(s, i + 1)
    ELSE IF -Len(s) <= i /\ i < 0
    THEN /\ ret = Returned(s[Len(s) + i + 1])
         /\ now = WithoutAt(s, Len(s) + i + 1)
    ELSE /\ ret.kind = "IndexError"
         /\ now = s

\* C4 as claimed: remove_chromosome, remove_parent and remove_child return
\* the element at i and keep the rest in order for 0 <= i < len, and fail
\* with IndexError, changing nothing, for every other i, negative ones
\* included.
C4_RemoveRejectsNegative ==
    /\ op = "remove_chromosome" =>
          /\ RemovedFrom(pre.members, chromosome_list)
          /\ mating_pool = pre.pool /\ next_population = pre.staging
    /\ op = "remove_parent" =>
          /\ RemovedFrom(pre.pool, mating_pool)
          /\ chromosome_list = pre.members /\ next_population = pre.staging
    /\ op = "remove_child" =>
          /\ RemovedFrom(pre.staging, next_population)
          /\ chromosome_list = pre.members /\ mating_pool = pre.pool

\* C4 amended: for 0 <= i < len the call returns the element at i, for
\* -len <= i < 0 the element at len+i, and keeps the rest of the slot in
\* order; for i < -len and i >= len it fails with IndexError and changes
\* nothing.  The other two slots are never changed.
C4_RemovePops ==
    /\ op = "remove_chromosome" =>
          /\ RemovedFromPy(pre.members, chromosome_list)
          /\ mating_pool = pre.pool /\ next_population = pre.staging
    /\ op = "remove_parent" =>
          /\ RemovedFromPy(pre.pool, mating_pool)
          /\ chromosome_list = pre.members /\ next_population = pre.staging
    /\ op = "remove_child" =>
          /\ RemovedFromPy(pre.staging, next_population)
          /\ chromosome_list = pre.members /\ mating_pool = pre.pool

C4_Witness ==
    /\ op = "remove_parent"
    /\ Len(pre.pool) = 2
    /\ pre.pool[1] # pre.pool[2]
    /\ arg.index = -2
    /\ ret = Returned(pre.pool[1])
    /\ mating_pool = <<pre.pool[2]>>

\* C7: append_children puts the given chromosomes, in their order, in front
\* of what the staging buffer held, and changes neither the members nor the
\* mating pool.
C7_AppendChildrenPrepends ==
    op = "append_children" =>
        /\ next_population = arg.items \o pre.staging
        /\ chromosome_list = pre.members
        /\ mating_pool = pre.pool

C7_Witness ==
    /\ op = "append_children"
    /\ Len(arg.items) = 1
    /\ Len(pre.staging) = 1
    /\ arg.items[1] # pre.staging[1]
    /\ pre.members # <<>>

\* the operations on the mating pool and the staging buffer
ScratchOps == {"set_parent", "add_parent", "remove_parent", "add_child",
               "remove_child", "append_children"}

\* C12: in every state the population operations reach, update included, the
\* operations on the mating pool and the staging buffer (set_parent,
\* add_parent, remove_parent, add_child, remove_child, append_children) leave
\* the members as they were, and set_parent(i) for 0 <= i < len puts
\* members[i] at the end of the mating pool.
C12_ScratchOpsKeepMembers ==
    /\ op \in ScratchOps => chromosome_list = pre.members
    /\ (op = "set_parent" /\ 0 <= arg.index
          /\ arg.index < Len(pre.members)) =>
          /\ ret = ReturnedNone
          /\ mating_pool = Append(pre.pool, pre.members[arg.index + 1])
          /\ next_population = pre.staging

C12_Witness ==
    /\ op = "set_parent"
    /\ arg.index = 1
    /\ Len(pre.members) = 2
    /\ pre.members[1] # pre.members[2]
    /\ Len(pre.pool) = 1
    /\ pre.pool[1] # pre.members[2]
    /\ pre.staging # <<>>
    /\ mating_pool = Append(pre.pool, pre.members[2])
    /\ chromosome_list = pre.members

----------------------------------------------------------------------------
(* Crossover_Methods.Individual *)

Min(a, b) == IF a < b THEN a ELSE b
Max(a, b) == IF a < b THEN b ELSE a
Abs(a) == IF a < 0 THEN -a ELSE a

\* the weight 0.5, in tenths
Half == 5

\* the chromosomes the recombination algorithms are exercised with
XChromosomes == UNION {[1..n -> Genes] : n \in 1..MaxChromLen}

\* the weights they are called with, in tenths: -0.5, 0, 0.2, 0.5, 0.8, 1, 1.5
Weights == {-5, 0, 2, 5, 8, 10, 15}

\* chromosome[:stop]
PySliceTo(s, stop) ==
    SubSeq(s, 1, IF stop < 0 THEN Max(Len(s) + stop, 0) ELSE Min(stop, Len(s)))

\* chromosome[start:]
PySliceFrom(s, start) ==
    SubSeq(s, (IF start < 0 THEN Max(Len(s) + start, 0)
                            ELSE Min(start, Len(s))) + 1, Len(s))

\* what a recombination algorithm yields: its offspring, with the swap index
\* it drew when it draws one
Offspring(c, swap_index) == [kind |-> "ok", val |-> c, idx |-> swap_index]

\* check_weight: the decorated method runs only if 0 < weight < 1
check_weight(weight, outcomes) ==
    IF 0 < weight /\ weight < 10 THEN outcomes ELSE {Raised("ValueError")}

\* int(n * (1-(1-x)**t)**(1/t)) for x drawn from [0,1): every index below
\* n, and n itself when weight > 0.5: then t > 1 and (1-x)**t underflows
\* against 1 for x close to 1, so the factor is the float 1.0
WeightedIndices(n, weight) ==
    IF n = 0 THEN {0} ELSE IF weight > Half THEN 0..n ELSE 0..(n - 1)

\* the body of single_point: with weight == 0.5 it evaluates
\* random.randrange(N), and N is bound nowhere
single_point_body(parent_1, parent_2, weight) ==
    IF weight = Half
    THEN {Raised("NameError")}
    ELSE {Offspring(PySliceTo(parent_1, swap_index)
                        \o PySliceFrom(parent_2, swap_index), swap_index) :
              swap_index \in
                  WeightedIndices(Min(Len(parent_1), Len(parent_2)), weight)}
         \cup
         {Offspring(PySliceTo(parent_2, -swap_index)
                        \o PySliceFrom(parent_1, -swap_index), swap_index) :
              swap_index \in
                  WeightedIndices(Min(Len(parent_1), Len(parent_2)), weight)}

\* Crossover_Methods.Individual.single_point
single_point(parent_1, parent_2, weight) ==
    check_weight(weight, single_point_body(parent_1, parent_2, weight))

\* Crossover_Methods.Individual.uniform: random.choice takes no cum_weights,
\* so drawing the first gene raises
uniform(parent_1, parent_2, weight) ==
    check_weight(weight,
        IF Min(Len(parent_1), Len(parent_2)) = 0
        THEN {Offspring(<<>>, -1)}
        ELSE {Raised("TypeError")})

\* round(value + random.uniform(-0.5, 0.5)) for a value given in tenths:
\* the integers less than 1 away, and an even one exactly 1 away
JitterRound(value10) ==
    {r \in ((value10 \div 10) - 1)..((value10 \div 10) + 2) :
        \/ Abs(10 * r - value10) < 10
        \/ Abs(10 * r - value10) = 10 /\ r % 2 = 0}

\* the chromosomes whose k-th gene is one of values[k]
RECURSIVE GeneWise(_)
GeneWise(values) ==
    IF values = <<>>
    THEN {<<>>}
    ELSE {<<v>> \o rest : v \in Head(values), rest \in GeneWise(Tail(values))}

ZipLen(parent_1, parent_2) == Min(Len(parent_1), Len(parent_2))

\* Crossover_Methods.Individual.Arithmetic.average (not weight-checked)
average(parent_1, parent_2, weight) ==
    {Offspring(c, -1) : c \in GeneWise(
        [k \in 1..ZipLen(parent_1, parent_2) |->
            JitterRound(weight * parent_1[k] + (10 - weight) * parent_2[k])])}

\* Crossover_Methods.Individual.Arithmetic.extrapolate (not weight-checked)
extrapolate(parent_1, parent_2, weight) ==
    {Offspring(c, -1) : c \in GeneWise(
        [k \in 1..ZipLen(parent_1, parent_2) |->
            JitterRound((20 - weight) * parent_1[k]
                            + (weight - 10) * parent_2[k])])}

\* the values Arithmetic.random can round to for one gene pair: with weight
\* 0.5 the value is drawn from [value_1, value_2], otherwise it is
\* value_1 + (value_2-value_1) * f with f in [0,1), and f in [0,1] when
\* weight > 0.5 (see WeightedIndices)
RandomValues(value_1, value_2, weight) ==
    {r \in (Min(value_1, value_2) - 1)..(Max(value_1, value_2) + 1) :
        \/ Min(value_1, value_2) <= r /\ r <= Max(value_1, value_2)
        \/ /\ r % 2 = 0
           /\ Abs(r - value_1) = 1
           /\ Abs(r - value_2) >= 1
        \/ /\ r % 2 = 0
           /\ Abs(r - value_2) = 1
           /\ Abs(r - value_1) >= 1
           /\ (weight >= Half \/ value_1 = value_2)}

\* Crossover_Methods.Individual.Arithmetic.random
random(parent_1, parent_2, weight) ==
    check_weight(weight,
        {Offspring(c, -1) : c \in GeneWise(
            [k \in 1..ZipLen(parent_1, parent_2) |->
                RandomValues(parent_1[k], parent_2[k], weight)])})

Methods == {"single_point", "uniform", "average", "extrapolate", "random"}

\* ga.crossover_individual_impl(ga, parent_1, parent_2, weight)
crossover_individual(impl, parent_1, parent_2, weight) ==
    CASE impl = "single_point" -> single_point(parent_1, parent_2, weight)
      [] impl = "uniform" -> uniform(parent_1, parent_2, weight)
      [] impl = "average" -> average(parent_1, parent_2, weight)
      [] impl = "extrapolate" -> extrapolate(parent_1, parent_2, weight)
      [] impl = "random" -> random(parent_1, parent_2, weight)

\* a call of a recombination algorithm on the arguments drawn at the start
Applied(method) ==
    /\ op = "init"
    /\ op' = method
    /\ pre' = Slots
    /\ UNCHANGED <<arg, popVars, gaVars>>

call_single_point ==
    /\ Applied("single_point")
    /\ ret' \in single_point(arg.parent_1, arg.parent_2, arg.weight)

call_uniform ==
    /\ Applied("uniform")
    /\ ret' \in uniform(arg.parent_1, arg.parent_2, arg.weight)

call_average ==
    /\ Applied("average")
    /\ ret' \in average(arg.parent_1, arg.parent_2, arg.weight)

call_extrapolate ==
    /\ Applied("extrapolate")
    /\ ret' \in extrapolate(arg.parent_1, arg.parent_2, arg.weight)

call_random ==
    /\ Applied("random")
    /\ ret' \in random(arg.parent_1, arg.parent_2, arg.weight)

Init_Crossover ==
    /\ chromosome_list = <<>>
    /\ mating_pool = <<>>
    /\ next_population = <<>>
    /\ op = "init"
    /\ arg \in {[NoArg EXCEPT !.parent_1 = p1, !.parent_2 = p2, !.weight = w] :
                   p1 \in XChromosomes, p2 \in XChromosomes, w \in Weights}
    /\ ret = ReturnedNone
    /\ pre = NoSlots
    /\ calls = <<>>
    /\ crossover_individual_impl = "single_point"
    /\ constructed = TRUE
    /\ chromosome_length = PyInt(DefaultChromosomeLength)
    /\ population_size = PyInt(DefaultPopulationSize)
    /\ heap = <<>>
    /\ genes = <<>>

Next_Crossover ==
    \/ call_single_point
    \/ call_uniform
    \/ call_average
    \/ call_extrapolate
    \/ call_random

SpecCrossover == Init_Crossover /\ [][Next_Crossover]_vars

\* C5: every recombination algorithm called with weight <= 0 or weight >= 1
\* fails with the invalid-weight error and produces no offspring.
C5_InvalidWeightRejected ==
    (op \in Methods /\ (arg.weight <= 0 \/ arg.weight >= 10)) =>
        /\ ret.kind = "ValueError"
        /\ ret.val = NoChromosome

\* C6: single_point on two parents of equal length n >= 1 with a weight in
\* (0,1), 0.5 included, returns a chromosome of length n, cut at a swap
\* index in 0..n-1.
C6_SinglePointKeepsLength ==
    (/\ op = "single_point"
     /\ Len(arg.parent_1) = Len(arg.parent_2)
     /\ 0 < arg.weight /\ arg.weight < 10) =>
        /\ ret.kind = "ok"
        /\ 0 <= ret.idx /\ ret.idx < Len(arg.parent_1)
        /\ Len(ret.val) = Len(arg.parent_1)

----------------------------------------------------------------------------
(* Crossover_Methods.Population *)

Call(pos, parent_1, partner, parent_2, weight, out) ==
    [pos |-> pos, parent_1 |-> parent_1, partner |-> partner,
     parent_2 |-> parent_2, weight |-> weight, out |-> out]

\* sequential_selection: mating_pool[index-1], by position
SequentialPartner(pool, index) == PyPos(pool, index - 1) - 1

\* random_selection: random.choice(mating_pool), by position
RandomPartners(pool) == 0..(Len(pool) - 1)

\* the generator of a pairing policy as list() consumes it from index on,
\* partners[index+1] being the position of the partner of mating_pool[index]:
\* the calls made, up to the first one that raises
RECURSIVE Runs(_, _, _, _)
Runs(impl, pool, partners, index) ==
    IF index >= Len(pool)
    THEN {<<>>}
    ELSE UNION {
        IF out.kind = "ok"
        THEN {<<Call(index, pool[index + 1], partners[index + 1],
                     pool[partners[index + 1] + 1], Half, out)>>
                  \o rest : rest \in Runs(impl, pool, partners, index + 1)}
        ELSE {<<Call(index, pool[index + 1], partners[index + 1],
                     pool[partners[index + 1] + 1], Half, out)>>}
        : out \in crossover_individual(impl, pool[index + 1],
                      pool[partners[index + 1] + 1], Half)}

Raises(run) == run # <<>> /\ run[Len(run)].out.kind # "ok"

\* an append_to_next_population that appends to the back
append_to_next_population_back(run) ==
    /\ calls' = run
    /\ IF Raises(run)
       THEN /\ ret' = Raised(run[Len(run)].out.kind)
            /\ UNCHANGED next_population
       ELSE /\ ret' = ReturnedNone
            /\ next_population' =
                   next_population \o [k \in 1..Len(run) |-> run[k].out.val]
    /\ UNCHANGED <<chromosome_list, mating_pool, crossover_individual_impl,
                   constructed, chromosome_length, population_size, heap,
                   genes>>

\* append_to_next_population: append_children(list(generator)); a call that
\* raises ends list() and nothing is appended
append_to_next_population(run) ==
    /\ calls' = run
    /\ IF Raises(run)
       THEN /\ ret' = Raised(run[Len(run)].out.kind)
            /\ UNCHANGED next_population
       ELSE /\ ret' = ReturnedNone
            /\ next_population' =
                   [k \in 1..Len(run) |-> run[k].out.val] \o next_population
    /\ UNCHANGED <<chromosome_list, mating_pool, crossover_individual_impl,
                   constructed, chromosome_length, population_size, heap,
                   genes>>

\* Crossover_Methods.Population.sequential_selection
sequential_selection ==
    /\ op = "init"
    /\ Called("sequential_selection", NoArg)
    /\ \E run \in Runs(crossover_individual_impl, mating_pool,
                      [k \in 1..Len(mating_pool) |->
                          SequentialPartner(mating_pool, k - 1)], 0) :
           append_to_next_population(run)

\* Crossover_Methods.Population.random_selection
random_selection ==
    /\ op = "init"
    /\ Called("random_selection", NoArg)
    /\ \E partners \in [1..Len(mating_pool) -> RandomPartners(mating_pool)] :
           \E run \in Runs(crossover_individual_impl, mating_pool,
                          partners, 0) :
               append_to_next_population(run)

Init_Pairing ==
    /\ chromosome_list = << <<0>>, <<1>> >>
    /\ mating_pool \in SeqsUpTo(PopChromosomes, MaxPool)
    /\ next_population \in {<<>>, << <<1>> >>}
    /\ op = "init"
    /\ arg = NoArg
    /\ ret = ReturnedNone
    /\ pre = NoSlots
    /\ calls = <<>>
    /\ crossover_individual_impl \in Methods
    /\ constructed = TRUE
    /\ chromosome_length = PyInt(DefaultChromosomeLength)
    /\ population_size = PyInt(DefaultPopulationSize)
    /\ heap = <<>>
    /\ genes = <<>>

Next_Pairing ==
    \/ sequential_selection
    \/ random_selection

SpecPairing == Init_Pairing /\ [][Next_Pairing]_vars

OffspringOf(run) == [k \in 1..Len(run) |-> run[k].out.val]

\* C9 as claimed: with two or more parents in the mating pool,
\* random_selection never hands a parent itself as its partner, and it
\* stages exactly one offspring per mating-pool entry.
C9_RandomPairsWithOther ==
    (op = "random_selection" /\ Len(pre.pool) >= 2) =>
        /\ \A k \in 1..Len(calls) : calls[k].partner # calls[k].pos
        /\ Len(calls) = Len(pre.pool)
        /\ Len(next_population) = Len(pre.staging) + Len(pre.pool)

\* C9 amended: random_selection calls the recombination algorithm for the
\* mating-pool entries in order, each with a partner taken from any position
\* of the pool, the parent's own included, and weight 0.5, until a call
\* raises.  When no call raises, there is one call per entry and the
\* offspring, one per entry, are put in front of the staging buffer; when
\* one raises, its error is the outcome and the staging buffer is unchanged.
\* The members and the mating pool are not changed.
C9_RandomPairsWithAny ==
    op = "random_selection" =>
        /\ Len(calls) <= Len(pre.pool)
        /\ \A k \in 1..Len(calls) :
              /\ calls[k].pos = k - 1
              /\ calls[k].parent_1 = pre.pool[k]
              /\ calls[k].partner \in 0..(Len(pre.pool) - 1)
              /\ calls[k].parent_2 = pre.pool[calls[k].partner + 1]
              /\ calls[k].weight = Half
              /\ k < Len(calls) => calls[k].out.kind = "ok"
        /\ IF \E k \in 1..Len(calls) : calls[k].out.kind # "ok"
           THEN /\ ret.kind = calls[Len(calls)].out.kind
                /\ next_population = pre.staging
           ELSE /\ ret = ReturnedNone
                /\ Len(calls) = Len(pre.pool)
                /\ next_population = OffspringOf(calls) \o pre.staging
        /\ chromosome_list = pre.members
        /\ mating_pool = pre.pool

C9_Witness ==
    /\ op = "random_selection"
    /\ Len(pre.pool) = 3
    /\ pre.pool[1] # pre.pool[2]
    /\ Len(calls) = 3
    /\ calls[2].partner = calls[2].pos
    /\ calls[1].partner = 2
    /\ ret = ReturnedNone
    /\ pre.staging # <<>>
    /\ Len(next_population) = Len(pre.staging) + 3

\* C10: sequential_selection on a mating pool of length m calls the
\* recombination algorithm m times, the i-th call with mating_pool[i] and
\* mating_pool[i-1] (the first with the last) and weight 0.5, and puts the m
\* offspring, in mating-pool order, in front of the staging buffer, changing
\* neither the mating pool nor the members.
C10_SequentialPairsAll ==
    op = "sequential_selection" =>
        /\ Len(calls) = Len(pre.pool)
        /\ \A k \in 1..Len(calls) :
              /\ calls[k].parent_1 = pre.pool[k]
              /\ calls[k].parent_2 =
                     pre.pool[IF k = 1 THEN Len(pre.pool) ELSE k - 1]
              /\ calls[k].weight = Half
              /\ calls[k].out.kind = "ok"
        /\ next_population = OffspringOf(calls) \o pre.staging
        /\ chromosome_list = pre.members
        /\ mating_pool = pre.pool

----------------------------------------------------------------------------
(* Attributes: chromosome_length and population_size *)

Unset == [kind |-> "unset", num |-> 0]

\* the values the two fields are given: integers, the booleans (a bool is an
\* int in Python: False is 0, True is 1), floats, a string and None
Values ==
    {[kind |-> "int", num |-> n] : n \in (-1)..MaxAttr}
        \cup {[kind |-> "bool", num |-> n] : n \in {0, 1}}
        \cup {[kind |-> "float", num |-> n] : n \in {-1, 2}}
        \cup {[kind |-> "str", num |-> 0], NoValue}

\* isinstance(value_input, int)
IsInstanceInt(value_input) == value_input.kind \in {"int", "bool"}

\* a setter test that forgets the type check
Rejected_NoTypeCheck(value_input) == value_input.num <= 0

\* the test of both setters:
\* not isinstance(value_input, int) or value_input <= 0
Rejected(value_input) ==
    ~IsInstanceInt(value_input) \/ value_input.num <= 0

\* Attributes.__init__: chromosome_length is assigned first, then
\* population_size; a setter that raises ends the construction
Attributes_init(cl, ps) ==
    /\ ~constructed
    /\ op' = "__init__"
    /\ arg' = [NoArg EXCEPT !.value = cl, !.value_2 = ps]
    /\ pre' = Slots
    /\ IF Rejected(cl)
       THEN /\ ret' = Raised("ValueError")
            /\ chromosome_length' = Unset
            /\ population_size' = Unset
            /\ UNCHANGED constructed
       ELSE IF Rejected(ps)
       THEN /\ ret' = Raised("ValueError")
            /\ chromosome_length' = cl
            /\ population_size' = Unset
            /\ UNCHANGED constructed
       ELSE /\ ret' = ReturnedNone
            /\ chromosome_length' = cl
            /\ population_size' = ps
            /\ constructed' = TRUE
    /\ UNCHANGED <<popVars, calls, crossover_individual_impl, heap, genes>>

\* Attributes.chromosome_length setter
set_chromosome_length(value_input) ==
    /\ constructed
    /\ op' = "set_chromosome_length"
    /\ arg' = [NoArg EXCEPT !.value = value_input]
    /\ pre' = Slots
    /\ IF Rejected(value_input)
       THEN /\ ret' = Raised("ValueError")
            /\ UNCHANGED chromosome_length
       ELSE /\ ret' = ReturnedNone
            /\ chromosome_length' = value_input
    /\ UNCHANGED <<popVars, calls, crossover_individual_impl, constructed,
                   population_size, heap, genes>>

\* Attributes.population_size setter
set_population_size(value_input) ==
    /\ constructed
    /\ op' = "set_population_size"
    /\ arg' = [NoArg EXCEPT !.value = value_input]
    /\ pre' = Slots
    /\ IF Rejected(value_input)
       THEN /\ ret' = Raised("ValueError")
            /\ UNCHANGED population_size
       ELSE /\ ret' = ReturnedNone
            /\ population_size' = value_input
    /\ UNCHANGED <<popVars, calls, crossover_individual_impl, constructed,
                   chromosome_length, heap, genes>>

Init_Attributes ==
    /\ chromosome_list = <<>>
    /\ mating_pool = <<>>
    /\ next_population = <<>>
    /\ op = "init"
    /\ arg = NoArg
    /\ ret = ReturnedNone
    /\ pre = NoSlots
    /\ calls = <<>>
    /\ crossover_individual_impl = "single_point"
    /\ constructed = FALSE
    /\ chromosome_length = Unset
    /\ population_size = Unset
    /\ heap = <<>>
    /\ genes = <<>>

Next_Attributes ==
    \/ \E cl \in Values, ps \in Values : Attributes_init(cl, ps)
    \/ \E value_input \in Values : set_chromosome_length(value_input)
    \/ \E value_input \in Values : set_population_size(value_input)

SpecAttributes == Init_Attributes /\ [][Next_Attributes]_vars

\* an integer greater than 0 (True is the integer 1)
PositiveInteger(v) == v.kind \in {"int", "bool"} /\ v.num >= 1

\* C8: the chromosome_length and population_size of a configuration are
\* positive integers in every state: a construction given a non-positive or
\* non-integer value for either fails and yields no configuration, and an
\* assignment of such a value fails and leaves both stored values as they
\* were.
C8_LengthAndSizePositive ==
    /\ constructed =>
          PositiveInteger(chromosome_length) /\ PositiveInteger(population_size)
    /\ (op = "__init__"
          /\ ~(PositiveInteger(arg.value)
                 /\ PositiveInteger(arg.value_2))) =>
          ret.kind = "ValueError" /\ ~constructed
    /\ (op \in {"set_chromosome_length", "set_population_size"}
          /\ ~PositiveInteger(arg.value)) =>
          /\ ret.kind = "ValueError"
          /\ chromosome_length = pre.chromosome_length
          /\ population_size = pre.population_size

C8_Witness ==
    /\ op = "set_population_size"
    /\ arg.value = [kind |-> "float", num |-> 2]
    /\ ret.kind = "ValueError"
    /\ population_size = PyInt(2)
    /\ chromosome_length = PyInt(1)

----------------------------------------------------------------------------
(* Gene *)

\* a value is an int, held directly, or a reference to an object of the heap
Atom(n) == [ref |-> FALSE, v |-> n]
Ref(a) == [ref |-> TRUE, v |-> a]

\* the objects: a list of values, a Gene, and an object of another class
\* that has an attribute named value (an enum member, a namespace)
ListObject(items) == [type |-> "list", items |-> items, value |-> Atom(0)]
GeneObject(value) == [type |-> "gene", items |-> <<>>, value |-> value]
BoxObject(value) == [type |-> "box", items |-> <<>>, value |-> value]

\* the value as == compares it: by type and content
RECURSIVE DeepVal(_, _)
DeepVal(h, item) ==
    IF ~item.ref
    THEN [t |-> "int", n |-> item.v, parts |-> <<>>]
    ELSE IF h[item.v].type = "list"
    THEN [t |-> "list", n |-> 0,
          parts |-> [k \in 1..Len(h[item.v].items) |->
                        DeepVal(h, h[item.v].items[k])]]
    ELSE [t |-> h[item.v].type, n |-> 0,
          parts |-> <<DeepVal(h, h[item.v].value)>>]

\* the objects a value is stored in
RECURSIVE Reach(_, _)
Reach(h, item) ==
    IF ~item.ref
    THEN {}
    ELSE IF h[item.v].type = "list"
    THEN {item.v} \cup UNION {Reach(h, h[item.v].items[k]) :
                                  k \in 1..Len(h[item.v].items)}
    ELSE {item.v} \cup Reach(h, h[item.v].value)

\* copy.deepcopy: an int is returned as it is, an object is rebuilt from
\* copies of its parts; the result is the heap with the new objects and the
\* copy
RECURSIVE deepcopy(_, _)
RECURSIVE deepcopy_items(_, _)
deepcopy(h, item) ==
    IF ~item.ref
    THEN [heap |-> h, item |-> item]
    ELSE IF h[item.v].type = "list"
    THEN LET r == deepcopy_items(h, h[item.v].items)
         IN  [heap |-> Append(r.heap, ListObject(r.items)),
              item |-> Ref(Len(r.heap) + 1)]
    ELSE LET r == deepcopy(h, h[item.v].value)
         IN  [heap |-> Append(r.heap, [h[item.v] EXCEPT !.value = r.item]),
              item |-> Ref(Len(r.heap) + 1)]

deepcopy_items(h, items) ==
    IF items = <<>>
    THEN [heap |-> h, items |-> <<>>]
    ELSE LET first == deepcopy(h, Head(items))
             rest == deepcopy_items(first.heap, Tail(items))
         IN  [heap |-> rest.heap, items |-> <<first.item>> \o rest.items]

\* value.value: whether the attribute exists, whatever the class
HasValueAttribute(h, item) == item.ref /\ h[item.v].type \in {"gene", "box"}

\* Gene.__init__: try: deepcopy(value.value)  except: deepcopy(value)
GeneValue(h, value) ==
    IF HasValueAttribute(h, value)
    THEN deepcopy(h, h[value.v].value)
    ELSE deepcopy(h, value)

\* each construction on record keeps what its gene held before the last
\* operation
Held ==
    [k \in 1..Len(genes) |->
        [genes[k] EXCEPT
            !.before = DeepVal(heap, heap[genes[k].gene].value)]]

\* Gene(value)
Gene_init(value) ==
    /\ Len(genes) < MaxGenes
    /\ op' = "Gene"
    /\ LET r == GeneValue(heap, value)
           g == Len(r.heap) + 1
       IN  /\ heap' = Append(r.heap, GeneObject(r.item))
           /\ ret' = ReturnedIndex(g)
           /\ genes' = Append(Held,
                  [gene |-> g, value |-> value,
                   from_gene |-> value.ref /\ heap[value.v].type = "gene",
                   given |-> DeepVal(heap, value),
                   before |-> DeepVal(r.heap, r.item)])
    /\ UNCHANGED <<popVars, arg, pre, calls, crossover_individual_impl,
                   constructed, chromosome_length, population_size>>

\* a list is changed in place: list.append(x)
list_append(a, x) ==
    /\ a \in 1..Len(heap)
    /\ heap[a].type = "list"
    /\ Len(heap[a].items) < MaxItems
    /\ op' = "list_append"
    /\ ret' = ReturnedIndex(a)
    /\ heap' = [heap EXCEPT ![a].items = Append(@, Atom(x))]
    /\ genes' = Held
    /\ UNCHANGED <<popVars, arg, pre, calls, crossover_individual_impl,
                   constructed, chromosome_length, population_size>>

\* an object with a value attribute is changed in place: obj.value = x
set_value(a, x) ==
    /\ a \in 1..Len(heap)
    /\ heap[a].type = "box"
    /\ heap[a].value # Atom(x)
    /\ op' = "set_value"
    /\ ret' = ReturnedIndex(a)
    /\ heap' = [heap EXCEPT ![a].value = Atom(x)]
    /\ genes' = Held
    /\ UNCHANGED <<popVars, arg, pre, calls, crossover_individual_impl,
                   constructed, chromosome_length, population_size>>

\* the values there are before the first Gene is made: ints, [0], [[0]],
\* an object with value 1 and an object whose value is [0]
RawHeaps ==
    {<<>>,
     <<ListObject(<<Atom(0)>>)>>,
     <<ListObject(<<Atom(0)>>), ListObject(<<Ref(1)>>)>>,
     <<BoxObject(Atom(1))>>,
     <<ListObject(<<Atom(0)>>), BoxObject(Ref(1))>>}

Init_Gene ==
    /\ chromosome_list = <<>>
    /\ mating_pool = <<>>
    /\ next_population = <<>>
    /\ op = "init"
    /\ arg = NoArg
    /\ ret = ReturnedNone
    /\ pre = NoSlots
    /\ calls = <<>>
    /\ crossover_individual_impl = "single_point"
    /\ constructed = TRUE
    /\ chromosome_length = PyInt(DefaultChromosomeLength)
    /\ population_size = PyInt(DefaultPopulationSize)
    /\ heap \in RawHeaps
    /\ genes = <<>>

Next_Gene ==
    \/ \E n \in Genes : Gene_init(Atom(n))
    \/ \E a \in 1..Len(heap) : Gene_init(Ref(a))
    \/ \E a \in 1..Len(heap), x \in Genes : list_append(a, x)
    \/ \E a \in 1..Len(heap), x \in Genes : set_value(a, x)

SpecGene == Init_Gene /\ [][Next_Gene]_vars

\* the gene of the k-th construction holds, right after it, a value equal
\* to the one it was given, or to the value of the gene it was given
HoldsWhatWasGiven(k) ==
    LET held == DeepVal(heap, heap[genes[k].gene].value)
    IN  IF genes[k].from_gene
        THEN held = genes[k].given.parts[1]
        ELSE held = genes[k].given

\* the last operation changed an object of what the k-th construction was
\* given
ChangedGiven(k) ==
    /\ op \in {"list_append", "set_value"}
    /\ ret.idx \in Reach(heap, genes[k].value)

\* C11: a Gene built from a value holds a value equal to it, a Gene built
\* from a Gene holds a value equal to that gene's value, a raw value is
\* never unwrapped, and no later in-place change of what a Gene was built
\* from changes the value the Gene holds.
C11_GeneDeepCopies ==
    /\ (op = "Gene" /\ genes # <<>>) => HoldsWhatWasGiven(Len(genes))
    /\ \A k \in 1..Len(genes) :
          ChangedGiven(k) =>
              DeepVal(heap, heap[genes[k].gene].value) = genes[k].before

\* the part of C11 that holds of the code: the copy is independent
C11_CopyIsIndependent ==
    \A k \in 1..Len(genes) :
        /\ ChangedGiven(k) =>
              DeepVal(heap, heap[genes[k].gene].value) = genes[k].before
        /\ (op = "Gene" /\ k = Len(genes)
              /\ (genes[k].from_gene \/ ~HasValueAttribute(heap, genes[k].value)))
              => HoldsWhatWasGiven(k)

====
